---- MODULE Spec2Model ----
(***************************************************************************)
(* Model of prediction_parameters.py: PredictionParameterisation (the      *)
(* parameter aggregator and the geometry cache) and the detector-space     *)
(* gradient classes DetectorSpacePredictionParameterisation (helpers from   *)
(* the compiled extension) and DetectorSpacePredictionParameterisation_py. *)
(*                                                                         *)
(* Numbers are exact.  Geometric quantities are integers in fixed point:   *)
(* the rotation axis, U, D and the Miller index are dimensionless, B, r,   *)
(* s0 and s carry three decimal digits, so that (e x r).s0 carries six and *)
(* the tolerance 1.e-6 of the degenerate-geometry check is one unit.       *)
(* Derivatives are exact fractions [n, d] (scalars) and [v, d] (vectors).  *)
(***************************************************************************)
EXTENDS Integers, Sequences, FiniteSets, TLC

(* ------------------------------ bounds -------------------------------- *)

\* models supplied to one parameterisation object, all four groups together
MaxModels == 2
\* free parameters of one model
MaxFree == 1
\* reflections in one match_list
MaxBatch == 2

(* --------------------------- program constants ------------------------ *)

\* 1.e-6, in units of 1e-6
TOL == 1

(* ------------------------- exact linear algebra ----------------------- *)

Abs(x) == IF x < 0 THEN -x ELSE x

Dot(a, b) == a[1] * b[1] + a[2] * b[2] + a[3] * b[3]

Cross(a, b) ==
  << a[2] * b[3] - a[3] * b[2], a[3] * b[1] - a[1] * b[3], a[1] * b[2] - a[2] * b[1] >>

VAdd(a, b) == << a[1] + b[1], a[2] + b[2], a[3] + b[3] >>

VScale(c, a) == << c * a[1], c * a[2], c * a[3] >>

MatVec(M, v) == << Dot(M[1], v), Dot(M[2], v), Dot(M[3], v) >>

Col(M, j) == << M[1][j], M[2][j], M[3][j] >>

\* the row a * B
RowMul(a, B) == << Dot(a, Col(B, 1)), Dot(a, Col(B, 2)), Dot(a, Col(B, 3)) >>

MatMul(A, B) == << RowMul(A[1], B), RowMul(A[2], B), RowMul(A[3], B) >>

MAdd(A, B) == << VAdd(A[1], B[1]), VAdd(A[2], B[2]), VAdd(A[3], B[3]) >>

MScale(c, A) == << VScale(c, A[1]), VScale(c, A[2]), VScale(c, A[3]) >>

Identity == << <<1, 0, 0>>, <<0, 1, 0>>, <<0, 0, 1>> >>

ZeroVec == <<0, 0, 0>>

\* the unit vector along axis i
Unit(i) == << IF i = 1 THEN 1 ELSE 0, IF i = 2 THEN 1 ELSE 0, IF i = 3 THEN 1 ELSE 0 >>

\* the matrix with a single 1, at row i and column j
Elementary(i, j) ==
  << IF i = 1 THEN Unit(j) ELSE ZeroVec, IF i = 2 THEN Unit(j) ELSE ZeroVec,
     IF i = 3 THEN Unit(j) ELSE ZeroVec >>

\* cosine and sine of a rotation angle given in quarter turns
Cos(q) == CASE q % 4 = 0 -> 1 [] q % 4 = 1 -> 0 [] q % 4 = 2 -> -1 [] OTHER -> 0

Sin(q) == CASE q % 4 = 0 -> 0 [] q % 4 = 1 -> 1 [] q % 4 = 2 -> 0 [] OTHER -> -1

\* [e]x, the matrix of the cross product with e
CrossMat(e) == << <<0, -e[3], e[2]>>, <<e[3], 0, -e[1]>>, <<-e[2], e[1], 0>> >>

\* e e^T
Outer(e) == << VScale(e[1], e), VScale(e[2], e), VScale(e[3], e) >>

\* matrix.col.axis_and_angle_as_r3_rotation_matrix for a unit axis:
\* R = cos(phi) I + sin(phi) [e]x + (1 - cos(phi)) e e^T
axis_and_angle_as_r3_rotation_matrix(e, phi) ==
  MAdd(MAdd(MScale(Cos(phi), Identity), MScale(Sin(phi), CrossMat(e))),
       MScale(1 - Cos(phi), Outer(e)))

(* --------------------------- sequence helpers ------------------------- *)

RECURSIVE Flatten(_)
\* [x for l in lists for x in l]
Flatten(lists) == IF lists = << >> THEN << >> ELSE Head(lists) \o Flatten(Tail(lists))

\* Python truth value of a list of parameterisations (None and [] are both false)
Truthy(list) == Len(list) > 0

\* the first n items of a sequence, and the rest
Take(seq, n) == SubSeq(seq, 1, n)

Drop(seq, n) == SubSeq(seq, n + 1, Len(seq))

(* ------------------------------- state -------------------------------- *)

VARIABLES
  cls,      \* the concrete class of the object: "ext" (compiled helpers) or "py"
  models,   \* the four lists of model parameterisations: det, beam, xlo, xluc
  length,   \* self._length
  phys,     \* the underlying detector, beam, crystal and goniometer: D, s0, U, B, axis
  cache,    \* self._D, _s0, _U, _B, _axis; set is FALSE until prepare has run
  last      \* the most recent call: what was called, with what, and what came of it

vars == << cls, models, length, phys, cache, last >>

Kinds == << "Detector", "Beam", "CrystalOrientation", "CrystalUnitCell" >>

(* ------------------- model parameterisations (external) --------------- *)

\* the value a free parameter has when the object is constructed: no two
\* alike, those of a crystal orientation negative
InitVal(g, m, k) ==
  LET first == << 3, 1, -2, 4 >>[g]
      step  == 4 * (m - 1) + 16 * (k - 1)
  IN  IF first < 0 THEN first - step ELSE first + step

\* a model parameterisation of kind g, the m-th supplied, with n free parameters
MkModel(g, m, n) ==
  [kind |-> g, id |-> m, num_free |-> n, p |-> [k \in 1..n |-> InitVal(g, m, k)]]

\* model.get_param_names(): the model's own names of its free parameters
ModelParamNames(model) == [k \in 1..model.num_free |-> << model.kind, "p", k >>]

\* model.get_ds_dp(): the derivative of the model's geometric quantity with
\* respect to each free parameter, a 3-vector for a beam and a matrix otherwise
ModelDsDp(model) ==
  [k \in 1..model.num_free |->
     LET n == model.id + k
     IN  CASE model.kind = 1 -> Elementary(((n - 2) % 3) + 1, ((n - 1) % 3) + 1)
           [] model.kind = 2 -> Unit((n % 2) + 2)
           [] model.kind = 3 -> Elementary(((n - 1) % 3) + 1, (n % 3) + 1)
           [] OTHER          -> Elementary(((n - 1) % 3) + 1, ((n - 1) % 3) + 1)]

\* model.set_param_vals(tmp): the model stores the values
ModelSet(model, tmp) == [model EXCEPT !.p = tmp]

\* a value that the setter of a model refuses
BadVal == -1

\* whether model.set_param_vals(tmp) raises
ModelSetRaises(model, tmp) == \E i \in 1..Len(tmp) : tmp[i] = BadVal

RECURSIVE SumDsDp(_, _, _)
\* the sum over the models of a list of value * derivative, from zero
SumDsDp(list, zero, beamKind) ==
  IF list = << >> THEN zero
  ELSE LET m == Head(list)
           d == ModelDsDp(m)
           RECURSIVE Acc(_, _)
           Acc(k, acc) ==
             IF k > m.num_free THEN acc
             ELSE Acc(k + 1, IF beamKind THEN VAdd(acc, VScale(m.p[k], d[k]))
                                         ELSE MAdd(acc, MScale(m.p[k], d[k])))
       IN  Acc(1, SumDsDp(Tail(list), zero, beamKind))

ZeroMat == MScale(0, Identity)

\* the state of the underlying experimental models for given parameter values:
\* each quantity is its reference value moved linearly along get_ds_dp
Compose(pz) ==
  [D    |-> MAdd(Identity, MScale(-1, SumDsDp(pz.det, ZeroMat, FALSE))),
   s0   |-> VAdd(<<0, 0, 1>>, SumDsDp(pz.beam, ZeroVec, TRUE)),
   U    |-> MAdd(Identity, SumDsDp(pz.xlo, ZeroMat, FALSE)),
   B    |-> MAdd(Identity, SumDsDp(pz.xluc, ZeroMat, FALSE)),
   axis |-> <<1, 0, 0>>]

(* --------------------------- the aggregator --------------------------- *)

RECURSIVE SumFree(_)
\* for model in list: length += model.num_free()
SumFree(list) == IF list = << >> THEN 0 ELSE Head(list).num_free + SumFree(Tail(list))

\* PredictionParameterisation._len
_len(pz) ==
  (IF Truthy(pz.det) THEN SumFree(pz.det) ELSE 0)
  + (IF Truthy(pz.beam) THEN SumFree(pz.beam) ELSE 0)
  + (IF Truthy(pz.xlo) THEN SumFree(pz.xlo) ELSE 0)
  + (IF Truthy(pz.xluc) THEN SumFree(pz.xluc) ELSE 0)

\* [x.get_param_vals() for x in list], flattened
GroupVals(list) == Flatten([i \in 1..Len(list) |-> list[i].p])

\* get_param_vals with the two crystal blocks in the other order
get_param_vals_swapped(pz) ==
  (IF Truthy(pz.det) THEN GroupVals(pz.det) ELSE << >>)
  \o (IF Truthy(pz.beam) THEN GroupVals(pz.beam) ELSE << >>)
  \o (IF Truthy(pz.xluc) THEN GroupVals(pz.xluc) ELSE << >>)
  \o (IF Truthy(pz.xlo) THEN GroupVals(pz.xlo) ELSE << >>)

\* PredictionParameterisation.get_param_vals
get_param_vals(pz) ==
  (IF Truthy(pz.det) THEN GroupVals(pz.det) ELSE << >>)
  \o (IF Truthy(pz.beam) THEN GroupVals(pz.beam) ELSE << >>)
  \o (IF Truthy(pz.xlo) THEN GroupVals(pz.xlo) ELSE << >>)
  \o (IF Truthy(pz.xluc) THEN GroupVals(pz.xluc) ELSE << >>)

\* [label % i + x for i, l in enumerate(name_lists) for x in l]
GroupNames(label, list) ==
  Flatten([i \in 1..Len(list) |->
             LET own == ModelParamNames(list[i])
             IN  [k \in 1..Len(own) |-> << label, i - 1, own[k] >>]])

\* PredictionParameterisation.get_param_names
get_param_names(pz) ==
  (IF Truthy(pz.det) THEN GroupNames("Detector", pz.det) ELSE << >>)
  \o (IF Truthy(pz.beam) THEN GroupNames("Source", pz.beam) ELSE << >>)
  \o (IF Truthy(pz.xlo) THEN GroupNames("Crystal", pz.xlo) ELSE << >>)
  \o (IF Truthy(pz.xluc) THEN GroupNames("Crystal", pz.xluc) ELSE << >>)

RECURSIVE SetGroup_skipping(_, _)
\* the loop of set_param_vals, going on to the next model when a setter raises
SetGroup_skipping(list, st) ==
  IF list = << >> \/ st.err # "none" THEN [st EXCEPT !.list = st.list \o list]
  ELSE LET model == Head(list)
           tmp   == Take(st.it, model.num_free)
       IN  IF Len(st.it) < model.num_free
             THEN [st EXCEPT !.list = st.list \o list, !.err = "StopIteration", !.it = << >>]
             ELSE SetGroup_skipping(Tail(list),
                    [list  |-> Append(st.list, IF ModelSetRaises(model, tmp) THEN model
                                               ELSE ModelSet(model, tmp)),
                     it    |-> Drop(st.it, model.num_free),
                     err   |-> "none",
                     calls |-> Append(st.calls, << model.kind, model.id >>)])

RECURSIVE SetGroup(_, _)
\* for model in list: tmp = [it.next() for i in range(model.num_free())];
\*                    model.set_param_vals(tmp)
\* st = [list: the models set so far, it: what the iterator still holds,
\*       err: the exception raised, calls: the models whose setter was called]
SetGroup(list, st) ==
  IF list = << >> \/ st.err # "none" THEN [st EXCEPT !.list = st.list \o list]
  ELSE LET model == Head(list)
           tmp   == Take(st.it, model.num_free)
       IN  IF Len(st.it) < model.num_free
             THEN [st EXCEPT !.list = st.list \o list, !.err = "StopIteration", !.it = << >>]
           ELSE IF ModelSetRaises(model, tmp)
             THEN [st EXCEPT !.list = st.list \o list, !.err = "ModelError",
                             !.calls = Append(st.calls, << model.kind, model.id >>)]
             ELSE SetGroup(Tail(list),
                    [list  |-> Append(st.list, ModelSet(model, tmp)),
                     it    |-> Drop(st.it, model.num_free),
                     err   |-> "none",
                     calls |-> Append(st.calls, << model.kind, model.id >>)])

\* one `if self._x_parameterisations:` block of set_param_vals
SetBlock(list, st) ==
  IF Truthy(list) /\ st.err = "none"
    THEN SetGroup(list, [st EXCEPT !.list = << >>])
    ELSE [st EXCEPT !.list = list]

\* the assert of set_param_vals, letting a vector that is too short through
SetLengthOk_short(vals, len) == Len(vals) <= len

\* the assert that opens set_param_vals
SetLengthOk(vals, len) == Len(vals) = len

\* PredictionParameterisation.set_param_vals: the models afterwards, the
\* exception raised ("none" when it returns) and the model setters called
set_param_vals(pz, len, vals) ==
  IF ~SetLengthOk(vals, len)
    THEN [pz |-> pz, err |-> "AssertionError", calls |-> << >>]
    ELSE LET s0 == [list |-> << >>, it |-> vals, err |-> "none", calls |-> << >>]
             s1 == SetBlock(pz.det, s0)
             s2 == SetBlock(pz.beam, s1)
             s3 == SetBlock(pz.xlo, s2)
             s4 == SetBlock(pz.xluc, s3)
         IN  [pz    |-> [det |-> s1.list, beam |-> s2.list, xlo |-> s3.list, xluc |-> s4.list],
              err   |-> s4.err,
              calls |-> s4.calls]

(* ------------------------- the geometry cache ------------------------- *)

NoCache == [set |-> FALSE, D |-> ZeroMat, s0 |-> ZeroVec, U |-> ZeroMat, B |-> ZeroMat,
            axis |-> ZeroVec]

\* PredictionParameterisation.prepare: the cache it leaves
prepare(ph) == [set |-> TRUE, D |-> ph.D, s0 |-> ph.s0, U |-> ph.U, B |-> ph.B,
                axis |-> ph.axis]

(* ----------------- derivative formulae of the helpers ----------------- *)

\* - D * dd_ddet_p[i] * pv
detector_pv_derivative(D, dd, pv) ==
  [i \in 1..Len(dd) |-> [v |-> VScale(-1, MatVec(MatMul(D, dd[i]), pv)), d |-> 1]]

\* - r.dot(ds0_dsrc_p[i]) / e_r_s0
beam_phi_derivative(r, ds0, e_r_s0) ==
  [i \in 1..Len(ds0) |-> [n |-> -Dot(r, ds0[i]), d |-> e_r_s0]]

\* D * (e_X_r * dphi_dsrc_p[i] + ds0_dsrc_p[i])
beam_pv_derivative(D, e_X_r, dphi, ds0) ==
  [i \in 1..Len(ds0) |->
     [v |-> MatVec(D, VAdd(VScale(dphi[i].n, e_X_r), VScale(dphi[i].d, ds0[i]))),
      d |-> dphi[i].d]]

\* R * dU_dxlo_p[i] * B * h
crystal_orientation_r_derivative(R, dU, B, h) ==
  [i \in 1..Len(dU) |-> MatVec(MatMul(MatMul(R, dU[i]), B), h)]

\* R * U * dB_dxluc_p[i] * h
crystal_cell_r_derivative(R, U, dB, h) ==
  [i \in 1..Len(dB) |-> MatVec(MatMul(MatMul(R, U), dB[i]), h)]

\* - der.dot(s) / e_r_s0 for der in dr
crystal_phi_derivative(dr, s, e_r_s0) ==
  [i \in 1..Len(dr) |-> [n |-> -Dot(dr[i], s), d |-> e_r_s0]]

\* D * (dr[i] + e_X_r * dphi[i])
crystal_pv_derivative(D, dr, e_X_r, dphi) ==
  [i \in 1..Len(dr) |->
     [v |-> MatVec(D, VAdd(VScale(dphi[i].d, dr[i]), VScale(dphi[i].n, e_X_r))),
      d |-> dphi[i].d]]

(* ------------------- the per-group contributors ----------------------- *)

\* the two accumulators of _get_gradients_core, with, for each entry, the
\* parameter it was appended for (of) and the models whose get_ds_dp was
\* consulted
NoDerivatives == [dpv_dp |-> << >>, dphi_dp |-> << >>, of |-> << >>, consulted |-> << >>]

\* dpv_dp.extend(dpv); dphi_dp.extend(dphi) in the loop body of model
Extend(acc, model, dpv, dphi, asked) ==
  [dpv_dp    |-> acc.dpv_dp \o dpv,
   dphi_dp   |-> acc.dphi_dp \o dphi,
   of        |-> acc.of \o [k \in 1..Len(dpv) |-> << model.kind, model.id, k >>],
   consulted |-> IF asked THEN Append(acc.consulted, << model.kind, model.id >>)
                 ELSE acc.consulted]

\* [matrix.col((0., 0., 0.))] * n and [0.] * n
ZeroPv(n) == [i \in 1..n |-> [v |-> ZeroVec, d |-> 1]]

ZeroPhi(n) == [i \in 1..n |-> [n |-> 0, d |-> 1]]

RECURSIVE DetectorLoop(_, _, _, _, _, _, _)
\* the loop of _detector_derivatives from model number idet on; n_dd is
\* len(dd_ddet_p), which only the idet == 0 branch assigns; returns is TRUE
\* where the loop body ends in `return`
DetectorLoop(list, idet, n_dd, acc, D, pv, returns) ==
  IF list = << >> THEN acc
  ELSE LET det == Head(list)
           dd  == ModelDsDp(det)
           n   == IF idet = 0 THEN Len(dd) ELSE n_dd
           dpv == IF idet = 0 THEN detector_pv_derivative(D, dd, pv) ELSE ZeroPv(n)
           nxt == Extend(acc, det, dpv, ZeroPhi(n), idet = 0)
       IN  IF returns THEN nxt
           ELSE DetectorLoop(Tail(list), idet + 1, n, nxt, D, pv, returns)

\* DetectorSpacePredictionParameterisation._detector_derivatives
_detector_derivatives_ext(acc, list, cch, pv) ==
  DetectorLoop(list, 0, 0, acc, cch.D, pv, TRUE)

\* DetectorSpacePredictionParameterisation_py._detector_derivatives
_detector_derivatives_py(acc, list, cch, pv) ==
  DetectorLoop(list, 0, 0, acc, cch.D, pv, FALSE)

RECURSIVE BeamLoop(_, _, _, _, _, _, _)
\* the loop of _beam_derivatives; returns is TRUE where the body ends in `return`
BeamLoop(list, acc, D, r, e_X_r, e_r_s0, returns) ==
  IF list = << >> THEN acc
  ELSE LET src  == Head(list)
           ds0  == ModelDsDp(src)
           dphi == beam_phi_derivative(r, ds0, e_r_s0)
           dpv  == beam_pv_derivative(D, e_X_r, dphi, ds0)
           nxt  == Extend(acc, src, dpv, dphi, TRUE)
       IN  IF returns THEN nxt
           ELSE BeamLoop(Tail(list), nxt, D, r, e_X_r, e_r_s0, returns)

\* _beam_derivatives, of both classes
_beam_derivatives(acc, list, cch, r, e_X_r, e_r_s0) ==
  BeamLoop(list, acc, cch.D, r, e_X_r, e_r_s0, TRUE)

RECURSIVE _xl_orientation_derivatives(_, _, _, _, _, _, _, _)
\* _xl_orientation_derivatives, of both classes
_xl_orientation_derivatives(acc, list, cch, R, h, s, e_X_r, e_r_s0) ==
  IF list = << >> THEN acc
  ELSE LET xlo  == Head(list)
           dU   == ModelDsDp(xlo)
           dr   == crystal_orientation_r_derivative(R, dU, cch.B, h)
           dphi == crystal_phi_derivative(dr, s, e_r_s0)
           dpv  == crystal_pv_derivative(cch.D, dr, e_X_r, dphi)
       IN  _xl_orientation_derivatives(Extend(acc, xlo, dpv, dphi, TRUE), Tail(list),
                                       cch, R, h, s, e_X_r, e_r_s0)

RECURSIVE _xl_unit_cell_derivatives(_, _, _, _, _, _, _, _)
\* _xl_unit_cell_derivatives, of both classes
_xl_unit_cell_derivatives(acc, list, cch, R, h, s, e_X_r, e_r_s0) ==
  IF list = << >> THEN acc
  ELSE LET xluc == Head(list)
           dB   == ModelDsDp(xluc)
           dr   == crystal_cell_r_derivative(R, cch.U, dB, h)
           dphi == crystal_phi_derivative(dr, s, e_r_s0)
           dpv  == crystal_pv_derivative(cch.D, dr, e_X_r, dphi)
       IN  _xl_unit_cell_derivatives(Extend(acc, xluc, dpv, dphi, TRUE), Tail(list),
                                     cch, R, h, s, e_X_r, e_r_s0)

\* _calc_dX_dp_and_dY_dp_from_dpv_dp, for pv[2] # 0:
\* (du_dp / w - u * dw_dp / w2, dv_dp / w - v * dw_dp / w2)
_calc_dX_dp_and_dY_dp_from_dpv_dp(pv, der) ==
  [dX |-> [n |-> der.v[1] * pv[3] - pv[1] * der.v[3], d |-> der.d * pv[3] * pv[3]],
   dY |-> [n |-> der.v[2] * pv[3] - pv[2] * der.v[3], d |-> der.d * pv[3] * pv[3]]]

(* -------------------------- the gradient core ------------------------- *)

\* the degenerate-geometry assert, letting the boundary value through
DegenerateCheck_inclusive(e_r_s0) == Abs(e_r_s0) >= TOL

\* assert abs(e_r_s0) > 1.e-6
DegenerateCheck(e_r_s0) == Abs(e_r_s0) > TOL

NoRow == [err |-> "none", row |-> << >>, dpv_dp |-> << >>, dphi_dp |-> << >>,
          of |-> << >>, consulted |-> << >>]

\* the contributors, the beam block indented into the detector block
Contributions_nested(c, pz, cch, h, s, phi) ==
  LET R      == axis_and_angle_as_r3_rotation_matrix(cch.axis, phi)
      pv     == MatVec(cch.D, s)
      r      == MatVec(MatMul(MatMul(R, cch.U), cch.B), h)
      e_X_r  == Cross(cch.axis, r)
      e_r_s0 == Dot(e_X_r, cch.s0)
      a1 == IF Truthy(pz.det)
              THEN IF c = "py" THEN _detector_derivatives_py(NoDerivatives, pz.det, cch, pv)
                               ELSE _detector_derivatives_ext(NoDerivatives, pz.det, cch, pv)
              ELSE NoDerivatives
      a2 == IF Truthy(pz.det) /\ Truthy(pz.beam)
              THEN _beam_derivatives(a1, pz.beam, cch, r, e_X_r, e_r_s0)
              ELSE a1
      a3 == IF Truthy(pz.xlo)
              THEN _xl_orientation_derivatives(a2, pz.xlo, cch, R, h, s, e_X_r, e_r_s0)
              ELSE a2
  IN  IF Truthy(pz.xluc)
        THEN _xl_unit_cell_derivatives(a3, pz.xluc, cch, R, h, s, e_X_r, e_r_s0)
        ELSE a3

\* the contributors of _get_gradients_core, in the order it calls them
Contributions(c, pz, cch, h, s, phi) ==
  LET R      == axis_and_angle_as_r3_rotation_matrix(cch.axis, phi)
      pv     == MatVec(cch.D, s)
      r      == MatVec(MatMul(MatMul(R, cch.U), cch.B), h)
      e_X_r  == Cross(cch.axis, r)
      e_r_s0 == Dot(e_X_r, cch.s0)
      a1 == IF Truthy(pz.det)
              THEN IF c = "py" THEN _detector_derivatives_py(NoDerivatives, pz.det, cch, pv)
                               ELSE _detector_derivatives_ext(NoDerivatives, pz.det, cch, pv)
              ELSE NoDerivatives
      a2 == IF Truthy(pz.beam) THEN _beam_derivatives(a1, pz.beam, cch, r, e_X_r, e_r_s0)
                               ELSE a1
      a3 == IF Truthy(pz.xlo)
              THEN _xl_orientation_derivatives(a2, pz.xlo, cch, R, h, s, e_X_r, e_r_s0)
              ELSE a2
  IN  IF Truthy(pz.xluc)
        THEN _xl_unit_cell_derivatives(a3, pz.xluc, cch, R, h, s, e_X_r, e_r_s0)
        ELSE a3

\* (e X r).s0 of a reflection
E_r_s0(cch, h, phi) ==
  LET R == axis_and_angle_as_r3_rotation_matrix(cch.axis, phi)
      r == MatVec(MatMul(MatMul(R, cch.U), cch.B), h)
  IN  Dot(Cross(cch.axis, r), cch.s0)

\* the end of _get_gradients_core: the positional derivatives of the entries
\* a of the accumulators, zipped with the derivatives of phi into the row
pos_grad_row(a, pv) ==
  LET partial == [NoRow EXCEPT !.dpv_dp = a.dpv_dp, !.dphi_dp = a.dphi_dp,
                               !.of = a.of, !.consulted = a.consulted]
  IN  IF a.dpv_dp # << >> /\ pv[3] = 0
        THEN [partial EXCEPT !.err = "ZeroDivisionError"]
      ELSE IF a.dpv_dp = << >>
        THEN [partial EXCEPT !.err = "ValueError"]
      ELSE LET pos_grad == [i \in 1..Len(a.dpv_dp) |->
                              _calc_dX_dp_and_dY_dp_from_dpv_dp(pv, a.dpv_dp[i])]
               n == IF Len(pos_grad) < Len(a.dphi_dp) THEN Len(pos_grad)
                                                       ELSE Len(a.dphi_dp)
           IN  [partial EXCEPT !.row =
                  [i \in 1..n |-> [dX |-> pos_grad[i].dX, dY |-> pos_grad[i].dY,
                                   dphi |-> a.dphi_dp[i]]]]

\* DetectorSpacePredictionParameterisation._get_gradients_core: the exception
\* raised ("none" when it returns), the row returned, and the accumulators
_get_gradients_core(c, pz, cch, h, s, phi) ==
  IF ~cch.set THEN [NoRow EXCEPT !.err = "AttributeError"]
  ELSE IF ~DegenerateCheck(E_r_s0(cch, h, phi)) THEN [NoRow EXCEPT !.err = "AssertionError"]
  ELSE pos_grad_row(Contributions(c, pz, cch, h, s, phi), MatVec(cch.D, s))

RECURSIVE GradientList_skipping(_, _, _)
\* the list of rows, a reflection whose core raises the assertion left out
GradientList_skipping(core, match_list, done) ==
  IF match_list = << >> THEN done
  ELSE IF core[Head(match_list)].err = "AssertionError"
    THEN GradientList_skipping(core, Tail(match_list), done)
  ELSE IF core[Head(match_list)].err # "none" THEN Append(done, core[Head(match_list)])
  ELSE GradientList_skipping(core, Tail(match_list), Append(done, core[Head(match_list)]))

RECURSIVE GradientList(_, _, _)
\* [self._get_gradients_core(m.H, m.Sc, m.Phic) for m in match_list]: the
\* results of the reflections up to and including the first that raises;
\* core[m] is what self._get_gradients_core does for reflection m
GradientList(core, match_list, done) ==
  IF match_list = << >> THEN done
  ELSE IF core[Head(match_list)].err # "none" THEN Append(done, core[Head(match_list)])
  ELSE GradientList(core, Tail(match_list), Append(done, core[Head(match_list)]))

RECURSIVE CoreLog(_, _)
\* what a run of cores did, in order: each core entered, then each get_ds_dp
CoreLog(cores, i) ==
  IF cores = << >> THEN << >>
  ELSE << << "core", i >> >>
       \o [j \in 1..Len(Head(cores).consulted) |->
             << "get_ds_dp", Head(cores).consulted[j][1], Head(cores).consulted[j][2] >>]
       \o CoreLog(Tail(cores), i + 1)

\* the exception that leaves a run of cores: that of the last one
RunErr(cores) == IF cores = << >> THEN "none" ELSE cores[Len(cores)].err

\* get_gradients without its prepare: the core on the cache the object holds
get_gradients_unprepared(core_on, ph, m) ==
  LET cch == CHOOSE x \in DOMAIN core_on : x # prepare(ph) \/ DOMAIN core_on = { prepare(ph) }
      g   == core_on[cch][m]
  IN  [cache  |-> cch,
       err    |-> g.err,
       result |-> g.row,
       cores  |-> << g >>,
       log    |-> CoreLog(<< g >>, 1)]

\* PredictionParameterisation.get_gradients: prepare, then the core.
\* core_on[cch][m] is what self._get_gradients_core does for reflection m
\* while the cache is cch
get_gradients(core_on, ph, m) ==
  LET cch == prepare(ph)
      g   == core_on[cch][m]
  IN  [cache  |-> cch,
       err    |-> g.err,
       result |-> g.row,
       cores  |-> << g >>,
       log    |-> << << "prepare" >> >> \o CoreLog(<< g >>, 1)]

\* get_multi_gradients with prepare moved into the loop over the reflections
get_multi_gradients_each(core_on, ph, match_list) ==
  LET cch   == prepare(ph)
      cores == GradientList(core_on[cch], match_list, << >>)
  IN  [cache  |-> IF match_list = << >> THEN NoCache ELSE cch,
       err    |-> RunErr(cores),
       result |-> IF RunErr(cores) = "none" THEN [i \in 1..Len(cores) |-> cores[i].row]
                  ELSE << >>,
       cores  |-> cores,
       log    |-> Flatten([i \in 1..Len(cores) |->
                             << << "prepare" >> >> \o CoreLog(<< cores[i] >>, i)])]

\* PredictionParameterisation.get_multi_gradients: prepare, then the list of
\* the rows of the cores; a core that raises ends the call and no list is returned
get_multi_gradients(core_on, ph, match_list) ==
  LET cch   == prepare(ph)
      cores == GradientList(core_on[cch], match_list, << >>)
  IN  [cache  |-> cch,
       err    |-> RunErr(cores),
       result |-> IF RunErr(cores) = "none" THEN [i \in 1..Len(cores) |-> cores[i].row]
                  ELSE << >>,
       cores  |-> cores,
       log    |-> << << "prepare" >> >> \o CoreLog(cores, 1)]

(* ------------------------------ inputs -------------------------------- *)

\* the lists of num_free() values of up to n models
RECURSIVE FreeLists(_)
FreeLists(n) ==
  IF n = 0 THEN { << >> }
  ELSE FreeLists(n - 1) \cup { Append(l, f) : l \in { x \in FreeLists(n - 1) : Len(x) = n - 1 },
                                              f \in 0..MaxFree }

\* the models of group g with the given numbers of free parameters
MkGroup(g, frees) == [m \in 1..Len(frees) |-> MkModel(g, m, frees[m])]

\* matched reflections (H, Sc, Phic), Phic in quarter turns.  With no model
\* parameterised (e X r).s0 is 2, 1 (the tolerance) and -2, and the last
\* reflection has pv[2] = 0
Reflections ==
  { [H |-> <<1, 2, 0>>, Sc |-> <<1, 2, 1>>, Phic |-> 0],
    [H |-> <<1, 1, 1>>, Sc |-> <<1, 1, 2>>, Phic |-> 0],
    [H |-> <<1, 0, 2>>, Sc |-> <<1, 2, 0>>, Phic |-> 1] }

MatchLists == UNION { [1..n -> Reflections] : n \in 0..MaxBatch }

\* a vector of n values that singles out position i (none for i = 0)
OneHot(n, i) == [j \in 1..n |-> IF j = i THEN 1 ELSE 0]

\* a vector of n values whose i-th a model setter refuses
Rejected(n, i) == [j \in 1..n |-> IF j = i THEN BadVal ELSE 0]

\* vectors handed to set_param_vals: what get_param_vals returns, vectors of
\* the right length that every setter accepts, vectors of the right length
\* with a value that a setter refuses, and vectors of every other length up
\* to one too many
SetInputs(pz, len) ==
  { get_param_vals(pz) }
  \cup { OneHot(len, i) : i \in {0, len} }
  \cup { Rejected(len, i) : i \in 1..len }
  \cup { OneHot(n, 1) : n \in (0..(len + 1)) \ {len} }

\* self._get_gradients_core as the object's class and models bind it, for each
\* cache the object may hold during a call: the one it has and the one prepare leaves
BoundCore(c, pz, cch, ph) ==
  [x \in {cch, prepare(ph)} |->
     [m \in Reflections |-> _get_gradients_core(c, pz, x, m.H, m.Sc, m.Phic)]]

(* ------------------------------ actions ------------------------------- *)

\* the record of a call: the method, its argument, the exception it raised
\* ("none" when it returned), what it returned, the calls it made in order,
\* the cores it ran, whether its argument is what the call just before it,
\* a get_param_vals, returned, and whether the object entered it holding a
\* cache built before the last change of the models
Call(op, arg, err, result, log, cores) ==
  [op |-> op, arg |-> arg, err |-> err, result |-> result, log |-> log, cores |-> cores,
   fed_back |-> FALSE, stale |-> FALSE]

\* whether the cache was built from another state of the models than ph
Stale(cch, ph) == cch.set /\ cch # prepare(ph)

\* __init__: the state after construction
Init ==
  /\ cls \in {"ext", "py"}
  /\ \E d \in FreeLists(MaxModels), b \in FreeLists(MaxModels),
        o \in FreeLists(MaxModels), u \in FreeLists(MaxModels) :
       /\ Len(d) + Len(b) + Len(o) + Len(u) <= MaxModels
       /\ models = [det |-> MkGroup(1, d), beam |-> MkGroup(2, b),
                    xlo |-> MkGroup(3, o), xluc |-> MkGroup(4, u)]
  /\ length = _len(models)
  /\ phys = Compose(models)
  /\ cache = NoCache
  /\ last = Call("__init__", << >>, "none", << >>, << >>, << >>)

GetParamVals ==
  /\ last' = Call("get_param_vals", << >>, "none", get_param_vals(models), << >>, << >>)
  /\ UNCHANGED << cls, models, length, phys, cache >>

GetParamNames ==
  /\ last' = Call("get_param_names", << >>, "none", get_param_names(models), << >>, << >>)
  /\ UNCHANGED << cls, models, length, phys, cache >>

SetParamVals ==
  \E vals \in SetInputs(models, length) :
    \E r \in { set_param_vals(models, length, vals) } :
        /\ models' = r.pz
        /\ phys' = Compose(r.pz)
        /\ last' = [Call("set_param_vals", vals, r.err, << >>,
                         [i \in 1..Len(r.calls) |->
                            << "set_param_vals", r.calls[i][1], r.calls[i][2] >>],
                         << >>)
                      EXCEPT !.fed_back = last.op = "get_param_vals" /\ vals = last.result]
        /\ UNCHANGED << cls, length, cache >>

Prepare ==
  /\ cache' = prepare(phys)
  /\ last' = Call("prepare", << >>, "none", << >>, << << "prepare" >> >>, << >>)
  /\ UNCHANGED << cls, models, length, phys >>

GetGradients ==
  \E core_on \in { BoundCore(cls, models, cache, phys) }, m \in Reflections :
    \E r \in { get_gradients(core_on, phys, m) } :
        /\ cache' = r.cache
        /\ last' = [Call("get_gradients", m, r.err, r.result, r.log, r.cores)
                      EXCEPT !.stale = Stale(cache, phys)]
        /\ UNCHANGED << cls, models, length, phys >>

GetMultiGradients ==
  \E core_on \in { BoundCore(cls, models, cache, phys) }, match_list \in MatchLists :
    \E r \in { get_multi_gradients(core_on, phys, match_list) } :
        /\ cache' = r.cache
        /\ last' = [Call("get_multi_gradients", match_list, r.err, r.result, r.log, r.cores)
                      EXCEPT !.stale = Stale(cache, phys)]
        /\ UNCHANGED << cls, models, length, phys >>

NextAgg == GetParamVals \/ GetParamNames \/ SetParamVals

NextGrad == Prepare \/ GetGradients \/ GetMultiGradients

Next == NextAgg \/ NextGrad

\* the aggregator alone
SpecAgg == Init /\ [][NextAgg]_vars

\* the cache and the gradients, the parameters as constructed
SpecGrad == Init /\ [][NextGrad]_vars

Spec == Init /\ [][Next]_vars

\* the models, over all four groups together, of the objects whose parameter
\* updates and gradient calls are followed in sequence
MaxSeqModels == 1

InitSeq ==
  /\ Init
  /\ Len(models.det) + Len(models.beam) + Len(models.xlo) + Len(models.xluc) <= MaxSeqModels

NextSeq == SetParamVals \/ Prepare \/ GetGradients \/ GetMultiGradients

\* parameter updates, cache rebuilds and gradient calls in any sequence
SpecSeq == InitSeq /\ [][NextSeq]_vars

(* ------------------------------ claims -------------------------------- *)

IsGradientCall == last.op \in {"get_gradients", "get_multi_gradients"}

\* the reflections of the last gradient call, in order
LastReflections == IF last.op = "get_gradients" THEN << last.arg >> ELSE last.arg

\* the rows the last call returned
ReturnedRows ==
  IF last.op = "get_gradients" /\ last.err = "none" THEN << last.result >>
  ELSE IF last.op = "get_multi_gradients" /\ last.err = "none" THEN last.result
  ELSE << >>

AnyGroup(pz) == Truthy(pz.det) \/ Truthy(pz.beam) \/ Truthy(pz.xlo) \/ Truthy(pz.xluc)

\* the models with each parameter value replaced by the parameter's identity
Tagged(pz) ==
  LET tag(list) == [i \in 1..Len(list) |->
                      [list[i] EXCEPT !.p = [k \in 1..list[i].num_free |->
                                               << list[i].kind, list[i].id, k >>]]]
  IN  [det |-> tag(pz.det), beam |-> tag(pz.beam), xlo |-> tag(pz.xlo), xluc |-> tag(pz.xluc)]

\* the parameter at each position of get_param_vals()
GetOrder(pz) == get_param_vals(Tagged(pz))

\* C1: every row that get_gradients or get_multi_gradients returns, for an
\* object with at least one non-empty group, has exactly len(self) triples,
\* the sum of num_free() over every model of every group.
C1_RowLength ==
  (IsGradientCall /\ AnyGroup(models)) =>
    \A i \in 1..Len(ReturnedRows) :
      /\ Len(ReturnedRows[i]) = length
      /\ Len(ReturnedRows[i]) = SumFree(models.det \o models.beam \o models.xlo \o models.xluc)

\* C2: one order for get, set and the gradient row: the parameter at position
\* i of get_param_vals() is the one that set_param_vals(vals) gives vals[i] and
\* the one whose derivative is the i-th triple of every row returned.
C2_OneOrder ==
  \A i \in 1..Len(GetOrder(models)) :
    LET id     == GetOrder(models)[i]
        marked == set_param_vals(models, length, [j \in 1..length |-> j])
        group  == CASE id[1] = 1 -> marked.pz.det [] id[1] = 2 -> marked.pz.beam
                    [] id[1] = 3 -> marked.pz.xlo [] OTHER -> marked.pz.xluc
    IN  /\ marked.err = "none"
        /\ group[id[2]].p[id[3]] = i
        /\ IsGradientCall /\ last.err = "none" =>
             \A c \in 1..Len(last.cores) :
               /\ Len(last.cores[c].row) >= i
               /\ last.cores[c].of[i] = id

\* C3: set_param_vals(get_param_vals()) succeeds and leaves every model's
\* parameter values as they were.
C3_RoundTrip ==
  [][(last.op = "get_param_vals" /\ last'.op = "set_param_vals" /\ last'.arg = last.result)
       => (last'.err = "none" /\ models' = models)]_vars

C3_Witness ==
  /\ last.op = "set_param_vals" /\ last.fed_back /\ last.err = "none"
  /\ Len(models.det) = 1 /\ Len(models.xluc) = 1 /\ length = 2
  /\ Len(last.log) = 2

\* C4: set_param_vals(vals) with len(vals) # len(self) raises before any
\* model's setter is called, and every model keeps its parameter values.
C4_LengthMismatch ==
  [][(last'.op = "set_param_vals" /\ Len(last'.arg) # length)
       => (last'.err = "AssertionError" /\ last'.log = << >> /\ models' = models)]_vars

C4_Witness ==
  /\ last.op = "set_param_vals" /\ last.err = "AssertionError"
  /\ length = 2 /\ Len(last.arg) = 1 /\ models.det # << >> /\ models.det[1].num_free = 1
  /\ last.log = << >>

\* C5: a reflection with |(e X r).s0| at or below the tolerance (the boundary
\* included) makes its core raise the assertion, with no row and before any
\* get_ds_dp; a reflection strictly above it does not raise the assertion.
C5_Degenerate ==
  IsGradientCall =>
    \A c \in 1..Len(last.cores) :
      LET m == LastReflections[c]
          e_r_s0 == E_r_s0(cache, m.H, m.Phic)
      IN  /\ (e_r_s0 <= TOL /\ e_r_s0 >= -TOL) =>
               /\ last.cores[c].err = "AssertionError"
               /\ last.cores[c].row = << >>
               /\ last.cores[c].consulted = << >>
               /\ last.err = "AssertionError" /\ last.result = << >>
               /\ last.log[Len(last.log)] = << "core", c >>
          /\ (e_r_s0 > TOL \/ e_r_s0 < -TOL) => last.cores[c].err # "AssertionError"

C5_Witness ==
  /\ last.op = "get_gradients" /\ last.err = "AssertionError"
  /\ E_r_s0(cache, last.arg.H, last.arg.Phic) = -TOL
  /\ length > 0

\* how often a log names prepare
PrepareCount(log) == Cardinality({ j \in 1..Len(log) : log[j][1] = "prepare" })

\* C6: one get_multi_gradients call rebuilds the cache exactly once, whatever
\* the number of reflections (none included), and before its first core.
C6_PrepareOnce ==
  last.op = "get_multi_gradients" =>
    /\ PrepareCount(last.log) = 1
    /\ last.log[1][1] = "prepare"
    /\ cache = prepare(phys)
    /\ Cardinality({ j \in 1..Len(last.log) : last.log[j][1] = "core" }) = Len(last.cores)

C6_Witness ==
  /\ last.op = "get_multi_gradients" /\ last.err = "none"
  /\ Len(last.arg) = 2 /\ Len(last.cores) = 2 /\ PrepareCount(last.log) = 1

\* C7: in every row, a second or later Detector model has, at its own
\* positions, one entry per free parameter of its own, each with a zero
\* pv-derivative and a zero phi-derivative, in both classes.
C7_LaterDetectorZero ==
  IsGradientCall =>
    \A c \in 1..Len(last.cores) :
      last.cores[c].err = "none" =>
        \A j \in 2..Len(models.det) :
          /\ Cardinality({ i \in 1..Len(last.cores[c].of) :
                             last.cores[c].of[i][1] = 1 /\ last.cores[c].of[i][2] = j })
               = models.det[j].num_free
          /\ \A k \in 1..models.det[j].num_free :
               LET pos == SumFree(Take(models.det, j - 1)) + k
               IN  /\ Len(last.cores[c].row) >= pos
                   /\ last.cores[c].of[pos] = << 1, j, k >>
                   /\ last.cores[c].dpv_dp[pos].v = ZeroVec
                   /\ last.cores[c].dphi_dp[pos].n = 0

\* the models with group g left empty
Without(pz, g) ==
  [det  |-> IF g = 1 THEN << >> ELSE pz.det,  beam |-> IF g = 2 THEN << >> ELSE pz.beam,
   xlo  |-> IF g = 3 THEN << >> ELSE pz.xlo,  xluc |-> IF g = 4 THEN << >> ELSE pz.xluc]

GroupOf(pz, g) ==
  CASE g = 1 -> pz.det [] g = 2 -> pz.beam [] g = 3 -> pz.xlo [] OTHER -> pz.xluc

\* the entries of seq that the tags do not give to group g, in order
Others(seq, tags, g) ==
  LET keep == SelectSeq([i \in 1..Len(seq) |-> i], LAMBDA i : tags[i][1] # g)
  IN  [j \in 1..Len(keep) |-> seq[keep[j]]]

\* C8: with a group left empty, get_param_vals, get_param_names and every
\* row hold no entry of that group, and the entries of the other groups are,
\* in value and order, those obtained with the group present (no row is
\* returned when the other groups contribute no entry at all).
C8_EmptyGroupIndependent ==
  \A g \in 1..4 :
    Truthy(GroupOf(models, g)) =>
      LET wo == Without(models, g)
      IN  /\ get_param_vals(wo) = Others(get_param_vals(models), GetOrder(models), g)
          /\ get_param_names(wo) = Others(get_param_names(models), GetOrder(models), g)
          /\ \A i \in 1..Len(GetOrder(wo)) : GetOrder(wo)[i][1] # g
          /\ IsGradientCall =>
               \A c \in 1..Len(last.cores) :
                 last.cores[c].err = "none" =>
                   LET m    == LastReflections[c]
                       w    == _get_gradients_core(cls, wo, cache, m.H, m.Sc, m.Phic)
                       rest == Others(last.cores[c].row, last.cores[c].of, g)
                   IN  IF rest = << >> THEN w.err = "ValueError"
                       ELSE /\ w.err = "none"
                            /\ w.row = rest
                            /\ \A i \in 1..Len(w.of) : w.of[i][1] # g

C8_Witness ==
  /\ last.op = "get_gradients" /\ last.err = "none"
  /\ Len(models.det) = 1 /\ Len(models.beam) = 1
  /\ Len(last.result) = 2
  /\ _get_gradients_core(cls, Without(models, 1), cache, last.arg.H, last.arg.Sc,
                         last.arg.Phic).row = << last.result[2] >>

\* C9: every row holds, for each model of the Beam group in list order, one
\* entry per free parameter of that model: all the Beam models, not the first.
C9_EveryBeamModel ==
  IsGradientCall =>
    \A c \in 1..Len(last.cores) :
      last.cores[c].err = "none" =>
        SelectSeq(last.cores[c].of, LAMBDA e : e[1] = 2)
          = SelectSeq(GetOrder(models), LAMBDA e : e[1] = 2)

\* whether the reflection is degenerate on the cache
Degenerate(cch, m) == Abs(E_r_s0(cch, m.H, m.Phic)) <= TOL

\* C10: get_multi_gradients on a list with a degenerate reflection raises:
\* the call ends at the first reflection whose core raises, which is the
\* degenerate one when every reflection before it gave a row; no reflection
\* is skipped or given a substitute row, no rows are returned, not even
\* those already computed, and the parameter values are unchanged.
C10_BatchPropagates ==
  [][(last'.op = "get_multi_gradients"
        /\ \E i \in 1..Len(last'.arg) : Degenerate(cache', last'.arg[i]))
       => LET n == Len(last'.cores)
              first == CHOOSE i \in 1..Len(last'.arg) :
                         /\ Degenerate(cache', last'.arg[i])
                         /\ \A j \in 1..(i - 1) : ~Degenerate(cache', last'.arg[j])
          IN  /\ last'.err # "none"
              /\ last'.result = << >>
              /\ n >= 1 /\ n <= first
              /\ last'.cores[n].err = last'.err
              /\ \A j \in 1..(n - 1) : last'.cores[j].err = "none"
              /\ n = first => last'.err = "AssertionError"
              /\ models' = models]_vars

C10_Witness ==
  /\ last.op = "get_multi_gradients" /\ last.err = "AssertionError"
  /\ Len(last.arg) = 2 /\ Len(last.cores) = 2
  /\ last.cores[1].err = "none" /\ last.cores[1].row # << >>
  /\ last.result = << >>

\* every model of the object, in the fixed order
AllModels(pz) == pz.det \o pz.beam \o pz.xlo \o pz.xluc

\* the values of vals that fall to the j-th model of the fixed order
SliceOf(pz, vals, j) ==
  LET off == SumFree(Take(AllModels(pz), j - 1))
  IN  [i \in 1..AllModels(pz)[j].num_free |-> vals[off + i]]

\* the models whose setter refuses its share of vals
Refusing(pz, vals) ==
  { j \in 1..Len(AllModels(pz)) : ModelSetRaises(AllModels(pz)[j], SliceOf(pz, vals, j)) }

\* C11: when, in a set_param_vals of the right length, the setter of the k-th
\* model raises, the call raises that error, the setters called are those of
\* models 1..k in order, the models before k hold their new values and the
\* models after k their old ones: nothing is rolled back.
C11_NoRollback ==
  [][(last'.op = "set_param_vals" /\ Len(last'.arg) = length
        /\ Refusing(models, last'.arg) # {})
       => LET old == AllModels(models)
              new == AllModels(models')
              k   == CHOOSE j \in Refusing(models, last'.arg) :
                       \A i \in Refusing(models, last'.arg) : j <= i
          IN  /\ last'.err = "ModelError"
              /\ last'.log = [j \in 1..k |-> << "set_param_vals", old[j].kind, old[j].id >>]
              /\ Len(models'.det) = Len(models.det) /\ Len(models'.beam) = Len(models.beam)
              /\ Len(models'.xlo) = Len(models.xlo) /\ Len(models'.xluc) = Len(models.xluc)
              /\ \A j \in 1..(k - 1) :
                   new[j] = [old[j] EXCEPT !.p = SliceOf(models, last'.arg, j)]
              /\ \A j \in (k + 1)..Len(old) : new[j] = old[j]]_vars

C11_Witness ==
  /\ last.op = "set_param_vals" /\ last.err = "ModelError"
  /\ Len(last.arg) = length /\ Len(last.log) = 2
  /\ AllModels(models)[1].num_free = 1
  /\ AllModels(models)[1].p = << last.arg[1] >>
  /\ AllModels(models)[1].p # << InitVal(AllModels(models)[1].kind, 1, 1) >>
  /\ AllModels(models)[2].p = << InitVal(AllModels(models)[2].kind, AllModels(models)[2].id, 1) >>

\* C12: in every sequence of calls, the rows that get_gradients and
\* get_multi_gradients return are those of a core run on a cache equal to the
\* state of the underlying models at the start of the call (the call leaves
\* that state as it is), whether or not prepare was called since the models
\* last changed; the object leaves the call holding that cache.
C12_FreshCache ==
  IsGradientCall =>
    /\ phys = Compose(models)
    /\ cache = prepare(phys)
    /\ \A c \in 1..Len(last.cores) :
         last.cores[c] = _get_gradients_core(cls, models, prepare(Compose(models)),
                                             LastReflections[c].H, LastReflections[c].Sc,
                                             LastReflections[c].Phic)
    /\ last.err = "none" =>
         /\ Len(ReturnedRows) = Len(last.cores)
         /\ \A c \in 1..Len(last.cores) : ReturnedRows[c] = last.cores[c].row

C12_Witness ==
  /\ last.op = "get_gradients" /\ last.stale /\ last.err = "none"
  /\ last.log[1] = << "prepare" >>

\* C13: with no free parameter at all (no model, or only models without a
\* free parameter), get_gradients on a reflection that is not degenerate
\* returns the empty row.
C13_EmptyRow ==
  (last.op = "get_gradients" /\ length = 0 /\ ~Degenerate(cache, last.arg))
    => (last.err = "none" /\ last.result = << >>)

====
